---- MODULE Spec2Model ----
(***************************************************************************)
(* Model of the recurrence and conflict engine of the event calendar       *)
(* (src/src/hooks/useEvents.ts).                                           *)
(*                                                                         *)
(* Representation of JavaScript values:                                    *)
(*   - a Date object is its number of minutes since 2024-01-01T00:00 local *)
(*     time (all dates are naive local dates, no DST);                     *)
(*   - a date string "yyyy-MM-dd" is the tuple <<y, m, d>>;                *)
(*   - a time string "HH:mm" is the tuple <<h, m>>; the empty string and   *)
(*     undefined (both falsy) are the empty tuple <<>>;                    *)
(*   - an id string is the tuple of its '-'-separated segments, so that    *)
(*     id.split('-') is the tuple itself; the segment "temp" is -1;        *)
(*   - an absent optional field has the falsy value of its type.           *)
(***************************************************************************)
EXTENDS Integers, Sequences, FiniteSets, TLC

VARIABLES
    events,     \* useState<Event[]>: the store as the current render's closures see it
    state,      \* the store as React holds it, setEvents' updaters applied
    lsEvents,   \* localStorage 'calendar-events'
    lsRecurring,\* localStorage 'calendar-recurring-events'
    now,        \* the clock read by Date.now()
    last,       \* the call made on the hook in this render, and its outcome
    xin,        \* inputs of the pure function under test
    xout        \* its result

vars == <<events, state, lsEvents, lsRecurring, now, last, xin, xout>>

----------------------------------------------------------------------------
(* Bounds of the model                                                     *)

MaxEvents == 2      \* records in the store
MaxNow == 2         \* last clock reading
MaxDay == 9         \* last day (from 2024-01-01) of windows and rule ends
MaxAnchor == 3      \* last day of an event's own date
MaxInterval == 3    \* largest recurrence interval
MaxSlot == 3        \* half-hour slots after 09:00 for start and end times
MaxDate == 1        \* last day of the dates given to the hook's mutations

----------------------------------------------------------------------------
(* Calendar date utilities (date-fns)                                      *)

MinutesPerDay == 1440
MinutesPerHour == 60

IsLeap(y) == (y % 4 = 0 /\ y % 100 # 0) \/ y % 400 = 0

DaysInMonth(y, m) ==
    IF m = 2 THEN (IF IsLeap(y) THEN 29 ELSE 28)
    ELSE IF m \in {4, 6, 9, 11} THEN 30 ELSE 31

DaysInYear(y) == IF IsLeap(y) THEN 366 ELSE 365

RECURSIVE DaysBeforeYear(_)
DaysBeforeYear(y) ==
    IF y <= 2024 THEN 0 ELSE DaysBeforeYear(y - 1) + DaysInYear(y - 1)

RECURSIVE DaysBeforeMonth(_, _)
DaysBeforeMonth(y, m) ==
    IF m <= 1 THEN 0 ELSE DaysBeforeMonth(y, m - 1) + DaysInMonth(y, m - 1)

\* parseISO("yyyy-MM-dd"): local midnight of that day
parseISO(s) ==
    (DaysBeforeYear(s[1]) + DaysBeforeMonth(s[1], s[2]) + (s[3] - 1)) * MinutesPerDay

\* parseISO(`${date}T${time}`)
parseISODateTime(dateStr, timeStr) ==
    parseISO(dateStr) + timeStr[1] * MinutesPerHour + timeStr[2]

RECURSIVE YmdFrom(_, _, _)
YmdFrom(y, m, n) ==
    IF n < DaysInMonth(y, m) THEN <<y, m, n + 1>>
    ELSE IF m = 12 THEN YmdFrom(y + 1, 1, n - DaysInMonth(y, m))
    ELSE YmdFrom(y, m + 1, n - DaysInMonth(y, m))

\* format(date, 'yyyy-MM-dd')
format(t) == YmdFrom(2024, 1, t \div MinutesPerDay)

addDays(t, n) == t + n * MinutesPerDay
addWeeks(t, n) == addDays(t, n * 7)
addHours(t, n) == t + n * MinutesPerHour

Min(a, b) == IF a <= b THEN a ELSE b
Max(a, b) == IF a >= b THEN a ELSE b

\* addMonths: same day of month, clamped to the last day of the target month
addMonths(t, n) ==
    LET s == format(t)
        k == (s[2] - 1) + n
        y == s[1] + (k \div 12)
        m == (k % 12) + 1
        d == Min(s[3], DaysInMonth(y, m))
    IN parseISO(<<y, m, d>>) + (t % MinutesPerDay)

\* Date.prototype.getDay(): 0 = Sunday; 2024-01-01 is a Monday
getDay(t) == ((t \div MinutesPerDay) + 1) % 7

----------------------------------------------------------------------------
(* Event records (src/src/types/Event.ts)                                  *)

\* event.recurrence === undefined
NoRecurrence == [type |-> "undefined", interval |-> 0, daysOfWeek |-> {}, endDate |-> <<>>]

Rule(type, interval, daysOfWeek, endDate) ==
    [type |-> type, interval |-> interval, daysOfWeek |-> daysOfWeek, endDate |-> endDate]

\* event.recurrence && event.recurrence.type !== 'none'
IsRecurring(e) == e.recurrence.type \notin {"undefined", "none"}

\* A stored record as addEvent receives it (title stands for the display fields)
MkEvent(id, title, date, time, endTime, recurrence) ==
    [id |-> id, title |-> title, date |-> date, time |-> time, endTime |-> endTime,
     recurrence |-> recurrence, originalDate |-> <<>>, parentId |-> <<>>,
     isRecurringInstance |-> FALSE]

----------------------------------------------------------------------------
(* Recurrence expander                                                     *)

\* Mutant of IntervalOr1: an absent interval is not replaced by 1
IntervalRaw(r) == r.interval

\* event.recurrence.interval || 1
IntervalOr1(r) == IF r.interval = 0 THEN 1 ELSE r.interval

\* Mutant of ScanToWeekday: the weekday is not tested
ScanToAnyDay(nextDate, daysOfWeek) == nextDate

\* lines 92-95: scan forward from nextDate to a day whose weekday is selected
RECURSIVE ScanToWeekday(_, _)
ScanToWeekday(nextDate, daysOfWeek) ==
    IF getDay(nextDate) \in daysOfWeek THEN nextDate
    ELSE ScanToWeekday(addDays(nextDate, 1), daysOfWeek)

\* Mutant of Advance: a custom rule counted in weeks
AdvanceCustomWeeks(r, currentDate) ==
    CASE r.type = "daily" -> addDays(currentDate, IntervalOr1(r))
      [] r.type = "weekly" ->
            IF r.daysOfWeek # {}
            THEN ScanToWeekday(addDays(currentDate, 1), r.daysOfWeek)
            ELSE addWeeks(currentDate, IntervalOr1(r))
      [] r.type = "monthly" -> addMonths(currentDate, IntervalOr1(r))
      [] r.type = "custom" -> addWeeks(currentDate, IntervalOr1(r))
      [] OTHER -> -1

\* lines 85-109: the cursor after one iteration; -1 stands for the default
\* branch, which returns from the function
Advance(r, currentDate) ==
    CASE r.type = "daily" -> addDays(currentDate, IntervalOr1(r))
      [] r.type = "weekly" ->
            IF r.daysOfWeek # {}
            THEN ScanToWeekday(addDays(currentDate, 1), r.daysOfWeek)
            ELSE addWeeks(currentDate, IntervalOr1(r))
      [] r.type = "monthly" -> addMonths(currentDate, IntervalOr1(r))
      [] r.type = "custom" -> addDays(currentDate, IntervalOr1(r))
      [] OTHER -> -1

\* Mutant of MkInstance: the instance keeps the master's id
MkInstanceSameId(event, currentDate) ==
    [event EXCEPT !.date = format(currentDate),
                  !.originalDate = event.date,
                  !.parentId = event.id,
                  !.isRecurringInstance = TRUE]

\* lines 74-82: the instance pushed for the cursor
MkInstance(event, currentDate) ==
    [event EXCEPT !.id = event.id \o format(currentDate),
                  !.date = format(currentDate),
                  !.originalDate = event.date,
                  !.parentId = event.id,
                  !.isRecurringInstance = TRUE]

\* lines 72-73: the loop condition and the emission test
InLoop(currentDate, endRecurrence, endDate) ==
    currentDate <= endRecurrence /\ currentDate <= endDate

\* Mutant of Emits: the window start is not tested
EmitsAlways(currentDate, startDate) == TRUE

Emits(currentDate, startDate) == currentDate >= startDate

RECURSIVE GenLoop(_, _, _, _, _, _)
GenLoop(event, currentDate, startDate, endDate, endRecurrence, acc) ==
    IF ~InLoop(currentDate, endRecurrence, endDate) THEN acc
    ELSE LET pushed == IF Emits(currentDate, startDate)
                       THEN Append(acc, MkInstance(event, currentDate))
                       ELSE acc
             next == Advance(event.recurrence, currentDate)
         IN IF next = -1 THEN pushed
            ELSE GenLoop(event, next, startDate, endDate, endRecurrence, pushed)

generateRecurringEvents(event, startDate, endDate) ==
    IF ~IsRecurring(event) THEN <<event>>
    ELSE LET endRecurrence == IF event.recurrence.endDate # <<>>
                              THEN parseISO(event.recurrence.endDate)
                              ELSE endDate
         IN GenLoop(event, parseISO(event.date), startDate, endDate, endRecurrence, <<>>)

----------------------------------------------------------------------------
(* Queries                                                                 *)

\* lines 118-131: what one stored record contributes to a range query
EventsOfRecord(event, startDate, endDate) ==
    LET eventDate == parseISO(event.date)
    IN IF eventDate >= startDate /\ eventDate <= endDate
       THEN IF IsRecurring(event)
            THEN generateRecurringEvents(event, startDate, endDate)
            ELSE <<event>>
       ELSE IF IsRecurring(event)
            THEN generateRecurringEvents(event, startDate, endDate)
            ELSE <<>>

RECURSIVE getEventsForDateRange(_, _, _)
getEventsForDateRange(evs, startDate, endDate) ==
    IF evs = <<>> THEN <<>>
    ELSE EventsOfRecord(Head(evs), startDate, endDate)
         \o getEventsForDateRange(Tail(evs), startDate, endDate)

getEventsForDate(evs, date) == getEventsForDateRange(evs, date, date)

----------------------------------------------------------------------------
(* Conflict detector                                                       *)

\* Mutant of EndOf: a default duration of two hours
EndOfTwoHours(e) ==
    IF e.endTime # <<>>
    THEN parseISODateTime(e.date, e.endTime)
    ELSE addHours(parseISODateTime(e.date, e.time), 2)

\* lines 285-290: the end of an event that has a time
EndOf(e) ==
    IF e.endTime # <<>>
    THEN parseISODateTime(e.date, e.endTime)
    ELSE addHours(parseISODateTime(e.date, e.time), 1)

\* Mutant of hasOverlap: an event that starts when the other ends overlaps it
hasOverlapClosed(eventStart, eventEnd, eStart, eEnd) ==
    \/ (eventStart >= eStart /\ eventStart <= eEnd)
    \/ (eventEnd > eStart /\ eventEnd <= eEnd)
    \/ (eventStart <= eStart /\ eventEnd >= eEnd)
    \/ eventStart = eStart

\* lines 293-302
hasOverlap(eventStart, eventEnd, eStart, eEnd) ==
    \/ (eventStart >= eStart /\ eventStart < eEnd)
    \/ (eventEnd > eStart /\ eventEnd <= eEnd)
    \/ (eventStart <= eStart /\ eventEnd >= eEnd)
    \/ eventStart = eStart

\* line 276: either event has no time
AllDay(e, event) == e.time = <<>> \/ event.time = <<>>

\* Mutant of IsSelf: the candidate is compared with itself
IsSelfNever(e, event) == FALSE

\* line 273: skip comparing with itself
IsSelf(e, event) == e.id = event.id

\* Mutant of ConflictsWith: an event without a time conflicts with nothing
ConflictsWithTimedOnly(e, event) ==
    IF IsSelf(e, event) THEN FALSE
    ELSE IF AllDay(e, event) THEN FALSE
    ELSE hasOverlap(parseISODateTime(event.date, event.time), EndOf(event),
                    parseISODateTime(e.date, e.time), EndOf(e))

\* lines 271-305: the filter's predicate
ConflictsWith(e, event) ==
    IF IsSelf(e, event) THEN FALSE
    ELSE IF AllDay(e, event) THEN TRUE
    ELSE hasOverlap(parseISODateTime(event.date, event.time), EndOf(event),
                    parseISODateTime(e.date, e.time), EndOf(e))

\* line 269: the instances the candidate is compared with
eventsOnSameDay(evs, event) == getEventsForDate(evs, parseISO(event.date))

checkConflicts(evs, event) ==
    LET Keep(e) == ConflictsWith(e, event)
    IN SelectSeq(eventsOnSameDay(evs, event), Keep)

----------------------------------------------------------------------------
(* Input domains                                                           *)

Day(n) == n * MinutesPerDay
DateStr(n) == format(Day(n))

\* "HH:mm" values: half-hour slots from 09:00, and 23:30
TimeOfSlot(i) == <<9 + (i \div 2), 30 * (i % 2)>>
Times == {TimeOfSlot(i) : i \in 0..MaxSlot} \cup {<<23, 30>>}
OptTimes == Times \cup {<<>>}

AnchorDates == {DateStr(n) : n \in 0..MaxAnchor}
OptEndDates == {<<>>} \cup {DateStr(n) : n \in 0..MaxDay}
DaysOfWeekChoices == {{}, {1, 3}, {0}, {2, 4, 6}}

Rules ==
    {Rule(ty, k, {}, ed) :
        ty \in {"none", "daily", "monthly", "custom", "other"},
        k \in 0..MaxInterval, ed \in OptEndDates}
    \cup {Rule("weekly", k, dw, ed) :
        k \in 0..MaxInterval, dw \in DaysOfWeekChoices, ed \in OptEndDates}

NoInput == [fn |-> "none"]

\* No call is being handled
NoCall == [op |-> "none", outcome |-> "ok", id |-> <<>>, data |-> <<>>,
           mode |-> "undefined", set |-> FALSE]

----------------------------------------------------------------------------
(* SpecExpand: generateRecurringEvents applied to a master and a window    *)

InitExpand ==
    /\ events = <<>>
    /\ state = <<>>
    /\ lsEvents = <<>>
    /\ lsRecurring = <<>>
    /\ now = 1
    /\ last = NoCall
    /\ xout = <<>>
    /\ \E d \in AnchorDates, r \in Rules, s \in 0..MaxDay, e \in 0..MaxDay :
          /\ s <= e
          /\ xin = [fn |-> "generateRecurringEvents",
                    event |-> MkEvent(<<1>>, "a", d, <<9, 0>>, <<>>, r),
                    startDate |-> Day(s), endDate |-> Day(e), done |-> FALSE]

Expand ==
    /\ xin.fn = "generateRecurringEvents"
    /\ ~xin.done
    /\ xout' = generateRecurringEvents(xin.event, xin.startDate, xin.endDate)
    /\ xin' = [xin EXCEPT !.done = TRUE]
    /\ UNCHANGED <<events, state, lsEvents, lsRecurring, now, last>>

NextExpand == Expand

SpecExpand == InitExpand /\ [][NextExpand]_vars

\* The result of the expansion under test
Expanded == xin.fn = "generateRecurringEvents" /\ xin.done
XDates == [i \in 1..Len(xout) |-> parseISO(xout[i].date)]
XAnchor == parseISO(xin.event.date)
XRule == xin.event.recurrence
XLow == Max(xin.startDate, XAnchor)
XHigh == IF XRule.endDate # <<>>
         THEN Min(xin.endDate, parseISO(XRule.endDate))
         ELSE xin.endDate

\* C1: every instance returned for a recurring master and a window [s,e] has
\* its date in [max(s, master.date), min(e, recurrence.endDate or e)], and a
\* daily series reaches recurrence.endDate itself (the end is inclusive).
C1_ExpansionBounds ==
    (Expanded /\ IsRecurring(xin.event)) =>
        /\ \A i \in 1..Len(xout) : XLow <= XDates[i] /\ XDates[i] <= XHigh
        /\ (/\ XRule.type = "daily" /\ IntervalOr1(XRule) = 1
            /\ XRule.endDate # <<>>
            /\ XLow <= parseISO(XRule.endDate)
            /\ parseISO(XRule.endDate) <= xin.endDate)
           => \E i \in 1..Len(xout) : xout[i].date = XRule.endDate

\* C1 witness: a series cut at both ends, by the window start and by its endDate
C1_Witness ==
    /\ Expanded /\ IsRecurring(xin.event)
    /\ Len(xout) >= 2
    /\ xin.startDate > XAnchor
    /\ XRule.endDate # <<>> /\ parseISO(XRule.endDate) < xin.endDate
    /\ xout[Len(xout)].date = XRule.endDate
    /\ XDates[1] = xin.startDate

\* The dates master.date + n*k days inside the expansion bounds
StepDates(k) ==
    {d \in {XAnchor + n * k * MinutesPerDay : n \in 0..(MaxDay + 1)} :
        XLow <= d /\ d <= XHigh}

\* C10: for a daily or custom rule with interval k >= 1 the returned dates are
\* exactly master.date + n*k days within the bounds, in increasing order, and
\* custom and daily with the same interval return the same dates.
C10_DailyCustomDates ==
    (Expanded /\ XRule.type \in {"daily", "custom"} /\ XRule.interval >= 1) =>
        /\ {XDates[i] : i \in 1..Len(xout)} = StepDates(XRule.interval)
        /\ \A i \in 1..(Len(xout) - 1) : XDates[i] < XDates[i + 1]
        /\ LET other == IF XRule.type = "daily" THEN "custom" ELSE "daily"
               twin == [xin.event EXCEPT !.recurrence.type = other]
               res == generateRecurringEvents(twin, xin.startDate, xin.endDate)
           IN /\ Len(res) = Len(xout)
              /\ \A i \in 1..Len(res) : res[i].date = xout[i].date

\* C10 witness: the spec's scenario, every second day from 01-01 to 01-07
C10_Witness ==
    /\ Expanded /\ XRule.type = "daily" /\ XRule.interval = 2
    /\ xin.event.date = <<2024, 1, 1>>
    /\ xin.startDate = Day(0) /\ xin.endDate = Day(6)
    /\ [i \in 1..Len(xout) |-> xout[i].date] =
         <<(<<2024, 1, 1>>), (<<2024, 1, 3>>), (<<2024, 1, 5>>), (<<2024, 1, 7>>)>>

\* The anchor date and every later date whose weekday is selected, inside the
\* expansion bounds
WeekdayDates(daysOfWeek) ==
    {d \in {Day(n) : n \in 0..MaxDay} :
        /\ XLow <= d /\ d <= XHigh
        /\ (d = XAnchor \/ (d > XAnchor /\ getDay(d) \in daysOfWeek))}

\* C11: for a weekly rule with a non-empty daysOfWeek the returned dates are
\* exactly the anchor date plus every later date whose weekday is in daysOfWeek,
\* within the bounds; the anchor is returned whatever its weekday, and the
\* result is the same for every interval.
C11_WeeklyDaysOfWeek ==
    (Expanded /\ XRule.type = "weekly" /\ XRule.daysOfWeek # {}) =>
        /\ {XDates[i] : i \in 1..Len(xout)} = WeekdayDates(XRule.daysOfWeek)
        /\ \A i \in 1..(Len(xout) - 1) : XDates[i] < XDates[i + 1]
        /\ \A k \in 0..MaxInterval :
              LET twin == [xin.event EXCEPT !.recurrence.interval = k]
                  res == generateRecurringEvents(twin, xin.startDate, xin.endDate)
              IN /\ Len(res) = Len(xout)
                 /\ \A i \in 1..Len(res) : res[i].date = xout[i].date

\* C11 witness: an anchor on a Tuesday with Monday and Wednesday selected and
\* interval 2; the anchor, the next day and both days of the next week are returned
C11_Witness ==
    /\ Expanded /\ XRule.type = "weekly" /\ XRule.daysOfWeek = {1, 3}
    /\ XRule.interval = 2
    /\ xin.event.date = <<2024, 1, 2>> /\ getDay(XAnchor) \notin XRule.daysOfWeek
    /\ xin.startDate = Day(0) /\ xin.endDate = Day(9)
    /\ [i \in 1..Len(xout) |-> xout[i].date] =
         <<(<<2024, 1, 2>>), (<<2024, 1, 3>>), (<<2024, 1, 8>>), (<<2024, 1, 10>>)>>

----------------------------------------------------------------------------
(* SpecMonthly: generateRecurringEvents applied to a monthly master        *)
(* anchored in January 2024 and a window of whole months                   *)

\* The windows reach month MaxMonth after January
MaxMonth == 3

MonthStart(i) == parseISO(<<2024, 1 + i, 1>>)
MonthEnd(i) == parseISO(<<2024, 1 + i, DaysInMonth(2024, 1 + i)>>)

MonthAnchors == {<<2024, 1, dd>> : dd \in 1..DaysInMonth(2024, 1)}
MonthEndDates == {<<>>} \cup {format(MonthEnd(i)) : i \in 0..MaxMonth}
MonthlyRules ==
    {Rule("monthly", k, {}, ed) : k \in 0..MaxInterval, ed \in MonthEndDates}

InitMonthly ==
    /\ events = <<>>
    /\ state = <<>>
    /\ lsEvents = <<>>
    /\ lsRecurring = <<>>
    /\ now = 1
    /\ last = NoCall
    /\ xout = <<>>
    /\ \E d \in MonthAnchors, r \in MonthlyRules, s \in 0..MaxMonth, e \in 0..MaxMonth :
          /\ s <= e
          /\ xin = [fn |-> "generateRecurringEvents",
                    event |-> MkEvent(<<1>>, "a", d, <<9, 0>>, <<>>, r),
                    startDate |-> MonthStart(s), endDate |-> MonthEnd(e),
                    done |-> FALSE]

SpecMonthly == InitMonthly /\ [][NextExpand]_vars

\* The dates master.date advanced by n*k months, inside the expansion bounds
MonthDates(k) ==
    {d \in {addMonths(XAnchor, n * k) : n \in 0..(MaxMonth + 1)} :
        XLow <= d /\ d <= XHigh}

\* C12: for a monthly rule with interval k >= 1 the returned dates are exactly
\* master.date advanced by n*k months within the bounds, so that the series is
\* on the anchor's day-of-month in every month that has that day.
C12_MonthlySameDayOfMonth ==
    (Expanded /\ XRule.type = "monthly" /\ XRule.interval >= 1) =>
        {XDates[i] : i \in 1..Len(xout)} = MonthDates(XRule.interval)

----------------------------------------------------------------------------
(* SpecLoop: generateRecurringEvents run one loop iteration at a time      *)

LoopRules ==
    {Rule(ty, k, {}, ed) :
        ty \in {"none", "daily", "monthly", "custom", "other"},
        k \in 0..MaxInterval, ed \in {<<>>, DateStr(MaxDay)}}
    \cup {Rule("weekly", k, dw, ed) :
        k \in 0..MaxInterval, dw \in DaysOfWeekChoices, ed \in {<<>>, DateStr(MaxDay)}}

\* line 69: let currentDate = new Date(eventDate)
InitLoop ==
    /\ events = <<>>
    /\ state = <<>>
    /\ lsEvents = <<>>
    /\ lsRecurring = <<>>
    /\ now = 1
    /\ last = NoCall
    /\ xout = <<>>
    /\ \E d \in AnchorDates, r \in LoopRules \cup {NoRecurrence},
          s \in 0..MaxDay, e \in 0..MaxDay :
          /\ s <= e
          /\ xin = [fn |-> "while",
                    event |-> MkEvent(<<1>>, "a", d, <<9, 0>>, <<>>, r),
                    startDate |-> Day(s), endDate |-> Day(e),
                    currentDate |-> parseISO(d), returned |-> FALSE]

\* line 71: recurrence.endDate, or the window end when there is none
EndRecurrence ==
    IF XRule.endDate # <<>> THEN parseISO(XRule.endDate) ELSE xin.endDate

\* lines 62-64: a record without a rule is returned as it is
ReturnEvent ==
    /\ xin.fn = "while" /\ ~xin.returned
    /\ ~IsRecurring(xin.event)
    /\ xout' = <<xin.event>>
    /\ xin' = [xin EXCEPT !.returned = TRUE]
    /\ UNCHANGED <<events, state, lsEvents, lsRecurring, now, last>>

\* lines 72-110: one iteration of the while loop; the default branch of the
\* switch returns from inside the loop
Iterate ==
    /\ xin.fn = "while" /\ ~xin.returned
    /\ IsRecurring(xin.event)
    /\ InLoop(xin.currentDate, EndRecurrence, xin.endDate)
    /\ xout' = IF Emits(xin.currentDate, xin.startDate)
               THEN Append(xout, MkInstance(xin.event, xin.currentDate))
               ELSE xout
    /\ LET next == Advance(XRule, xin.currentDate)
       IN xin' = IF next = -1
                 THEN [xin EXCEPT !.returned = TRUE]
                 ELSE [xin EXCEPT !.currentDate = next]
    /\ UNCHANGED <<events, state, lsEvents, lsRecurring, now, last>>

\* lines 72, 112: the loop condition fails and the instances are returned
LoopExit ==
    /\ xin.fn = "while" /\ ~xin.returned
    /\ IsRecurring(xin.event)
    /\ ~InLoop(xin.currentDate, EndRecurrence, xin.endDate)
    /\ xin' = [xin EXCEPT !.returned = TRUE]
    /\ UNCHANGED <<events, state, lsEvents, lsRecurring, now, last, xout>>

NextLoop == ReturnEvent \/ Iterate \/ LoopExit

SpecLoop == InitLoop /\ [][NextLoop]_vars

\* The function body runs to completion once called
FairLoop == SpecLoop /\ WF_vars(NextLoop)

\* C13: generateRecurringEvents returns for every rule of the data model
\* (recognized or unrecognized type, interval positive or absent, any set of
\* weekdays, with or without endDate) and every bounded window, and every
\* iteration that does not return moves the cursor to a strictly later date.
C13_Terminates ==
    /\ [][xin'.returned \/ xin'.currentDate > xin.currentDate]_vars
    /\ <>(xin.returned)

\* C13 witness: a weekly rule with no interval and no endDate has returned
\* after more than one iteration, with the instances of the whole function
C13_Witness ==
    /\ xin.fn = "while" /\ xin.returned
    /\ XRule.type = "weekly" /\ XRule.interval = 0 /\ XRule.endDate = <<>>
    /\ xin.currentDate > xin.endDate
    /\ Len(xout) >= 2
    /\ xout = generateRecurringEvents(xin.event, xin.startDate, xin.endDate)

----------------------------------------------------------------------------
(* SpecConflict: checkConflicts applied to a candidate and a one-record    *)
(* store                                                                   *)

ConflictRules == {NoRecurrence, Rule("daily", 1, {}, <<>>)}
ConflictDates == {DateStr(0), DateStr(1)}

\* ids a candidate can carry: a fresh record id, the stored record's id, the
\* id of one of its instances, and addEvent's 'temp-<now>' (temp is -1)
CandidateIds == {<<2>>, <<1>>, <<-1, 2>>} \cup {<<1>> \o d : d \in ConflictDates}

InitConflict ==
    /\ lsEvents = <<>>
    /\ lsRecurring = <<>>
    /\ now = 1
    /\ last = NoCall
    /\ xout = <<>>
    /\ \E d \in ConflictDates, tm \in OptTimes, en \in OptTimes, r \in ConflictRules :
          events = <<MkEvent(<<1>>, "a", d, tm, en, r)>>
    /\ state = events
    /\ \E id \in CandidateIds, d \in ConflictDates, tm \in OptTimes, en \in OptTimes,
          r \in ConflictRules :
          xin = [fn |-> "checkConflicts", event |-> MkEvent(id, "b", d, tm, en, r),
                 done |-> FALSE]

Check ==
    /\ xin.fn = "checkConflicts"
    /\ ~xin.done
    /\ xout' = checkConflicts(events, xin.event)
    /\ xin' = [xin EXCEPT !.done = TRUE]
    /\ UNCHANGED <<events, state, lsEvents, lsRecurring, now, last>>

NextConflict == Check

SpecConflict == InitConflict /\ [][NextConflict]_vars

\* The check under test: the candidate, the instances on its date, the result
Checked == xin.fn = "checkConflicts" /\ xin.done
Cand == xin.event
SameDay == eventsOnSameDay(events, Cand)
Reported(e) == \E j \in 1..Len(xout) : xout[j] = e

\* Minutes since midnight of a "HH:mm" value
MinuteOf(tm) == tm[1] * MinutesPerHour + tm[2]
StartMin(e) == MinuteOf(e.time)
EndMin(e) == IF e.endTime # <<>> THEN MinuteOf(e.endTime) ELSE StartMin(e) + MinutesPerHour

\* The half-open overlap predicate of the specification
HalfOpenOverlap(c, o) == StartMin(c) < EndMin(o) /\ EndMin(c) > StartMin(o)

\* endTime absent, or later than time
ProperRange(e) == e.endTime = <<>> \/ MinuteOf(e.endTime) > MinuteOf(e.time)

\* C5 as stated: for every other instance on the candidate's date, both with a
\* time, the instance is reported exactly when candidateStart < otherEnd and
\* candidateEnd > otherStart, for all start/end combinations.
C5_HalfOpenAllCombinations ==
    Checked =>
        \A i \in 1..Len(SameDay) :
            LET e == SameDay[i]
            IN (e.id # Cand.id /\ e.time # <<>> /\ Cand.time # <<>>) =>
                   (Reported(e) <=> HalfOpenOverlap(Cand, e))

\* C5 amended: the same, when each side's endTime, if present, is later than
\* its time.
C5_HalfOpenProperRanges ==
    Checked =>
        \A i \in 1..Len(SameDay) :
            LET e == SameDay[i]
            IN (/\ e.id # Cand.id /\ e.time # <<>> /\ Cand.time # <<>>
                /\ ProperRange(e) /\ ProperRange(Cand)) =>
                   (Reported(e) <=> HalfOpenOverlap(Cand, e))

\* C5 witness: proper ranges that overlap and are reported, where the candidate
\* starts before the stored event and ends inside it
C5_Witness ==
    /\ Checked /\ Len(SameDay) = 1 /\ Len(xout) = 1
    /\ Cand.time # <<>> /\ SameDay[1].time # <<>>
    /\ Cand.endTime # <<>> /\ SameDay[1].endTime # <<>>
    /\ ProperRange(Cand) /\ ProperRange(SameDay[1])
    /\ StartMin(Cand) < StartMin(SameDay[1])
    /\ EndMin(Cand) < EndMin(SameDay[1])
    /\ HalfOpenOverlap(Cand, SameDay[1])

\* An entry of a query result that comes from stored record r
DerivedFrom(e, r) == e.id = r.id \/ e.parentId = r.id

\* C6: conflict is symmetric. With A stored and B the candidate (distinct
\* record ids), an instance of A on B's date is reported for B exactly when,
\* with B stored instead, B is reported for that instance of A.
C6_Symmetry ==
    (Checked /\ Cand.id = <<2>>) =>
        \A i \in 1..Len(SameDay) :
            LET a == SameDay[i]
                back == checkConflicts(<<Cand>>, a)
            IN Reported(a) <=> \E j \in 1..Len(back) : DerivedFrom(back[j], Cand)

\* C7: the result of checkConflicts never holds an element with the
\* candidate's own id.
C7_NoSelfConflict ==
    Checked => \A j \in 1..Len(xout) : xout[j].id # Cand.id

\* C7 witness: the candidate is an instance of the stored series, found on its
\* date and left out of the result
C7_Witness ==
    /\ Checked /\ Len(Cand.id) > 1
    /\ \E i \in 1..Len(SameDay) : SameDay[i].id = Cand.id
    /\ xout = <<>>

\* The instances on the candidate's date other than the candidate itself
Others == LET NotSelf(e) == e.id # Cand.id IN SelectSeq(SameDay, NotSelf)

\* C8: a candidate without a time gets every instance on its date except the
\* one with its own id; an instance without a time is reported to every
\* candidate with another id, whatever the candidate's time range.
C8_AllDayAbsorption ==
    Checked =>
        /\ Cand.time = <<>> => xout = Others
        /\ \A i \in 1..Len(SameDay) :
              (SameDay[i].time = <<>> /\ SameDay[i].id # Cand.id) => Reported(SameDay[i])

\* C8 witnesses: a timed instance reported to an all-day candidate, and an
\* all-day instance reported to a timed candidate
C8_Witness ==
    /\ Checked /\ Len(xout) = 1
    /\ \/ (Cand.time = <<>> /\ xout[1].time # <<>>)
       \/ (Cand.time # <<>> /\ xout[1].time = <<>> /\ xout[1].isRecurringInstance)

----------------------------------------------------------------------------
(* The hook's mutations                                                    *)

\* Array.prototype.find by id: the first match, as a sequence of 0 or 1 records
FindById(evs, id) ==
    LET Is(e) == e.id = id
        found == SelectSeq(evs, Is)
    IN IF found = <<>> THEN <<>> ELSE <<Head(found)>>

\* prev.map(event => event.id === id ? replacement : event)
MapReplace(evs, id, replacement) ==
    [i \in 1..Len(evs) |-> IF evs[i].id = id THEN replacement ELSE evs[i]]

\* {...record, ...updates}: the fields present in updates override
Merge(record, updates) ==
    [f \in DOMAIN record |-> IF f \in DOMAIN updates THEN updates[f] ELSE record[f]]

\* lines 54-58: the save effect's two collections
RegularEvents(evs) ==
    LET Regular(e) == ~IsRecurring(e) IN SelectSeq(evs, Regular)

\* Mutant of RecurringMasterEvents: the flag is tested the other way round
RecurringInstancesOnly(evs) ==
    LET Instance(e) == IsRecurring(e) /\ e.isRecurringInstance IN SelectSeq(evs, Instance)

RecurringMasterEvents(evs) ==
    LET Master(e) == IsRecurring(e) /\ ~e.isRecurringInstance IN SelectSeq(evs, Master)

\* lines 143-146: 'temp-' + Date.now(); the segment "temp" is -1
TempEvent(data, t) == [data EXCEPT !.id = <<-1, t>>]

\* Mutant of AddConflicts: addEvent does not check
AddConflictsNone(evs, data, t) == <<>>

\* line 148
AddConflicts(evs, data, t) == checkConflicts(evs, TempEvent(data, t))

\* lines 154-160
NewEvent(data, t) == [data EXCEPT !.id = <<t>>]

\* lines 164, 169: both branches append the new record
AddCommit(prev, newEvent) == Append(prev, newEvent)

\* lines 175-176, 245-246
IsInstanceId(id) == Len(id) > 1
ParentIdOf(id) == IF IsInstanceId(id) THEN <<id[1]>> ELSE id

\* line 215: id.split('-').slice(1).join('-')
InstanceDateOf(id) == Tail(id)

\* lines 179-192: the master, from the store or else from the persisted masters
FindMaster(evs, savedRecurring, id) ==
    LET inStore == FindById(evs, ParentIdOf(id))
    IN IF inStore # <<>> THEN inStore ELSE FindById(savedRecurring, ParentIdOf(id))

\* lines 199-203
UpdateTemp(masterEvent, updates, id) == [Merge(masterEvent, updates) EXCEPT !.id = id]

\* line 206
UpdateConflicts(evs, masterEvent, updates, id) ==
    checkConflicts(evs, UpdateTemp(masterEvent, updates, id))

\* Mutant of StandaloneEvent: the date of the merged fields is kept
StandaloneMergedDate(masterEvent, updates, id, t) ==
    [Merge(masterEvent, updates) EXCEPT !.id = <<t>>,
                                        !.recurrence = NoRecurrence,
                                        !.isRecurringInstance = FALSE,
                                        !.parentId = <<>>]

\* lines 217-226
StandaloneEvent(masterEvent, updates, id, t) ==
    [Merge(masterEvent, updates) EXCEPT !.id = <<t>>,
                                        !.date = InstanceDateOf(id),
                                        !.recurrence = NoRecurrence,
                                        !.isRecurringInstance = FALSE,
                                        !.parentId = <<>>]

\* lines 212-240: the updater of a validated update, applied to prev
UpdateCommit(prev, masterEvent, updates, id, mode, t) ==
    IF IsInstanceId(id) /\ mode = "single"
    THEN Append(prev, StandaloneEvent(masterEvent, updates, id, t))
    ELSE MapReplace(prev, ParentIdOf(id), Merge(masterEvent, updates))

\* lines 173-241: how the call ends
UpdateOutcome(evs, savedRecurring, id, updates) ==
    LET m == FindMaster(evs, savedRecurring, id)
    IN IF m = <<>> THEN "notfound"
       ELSE IF UpdateConflicts(evs, m[1], updates, id) # <<>> THEN "conflict"
       ELSE "ok"

\* Mutant of UpdateStore: the update is applied before the conflict check
UpdateStoreUnchecked(prev, evs, savedRecurring, id, updates, mode, t) ==
    IF FindMaster(evs, savedRecurring, id) # <<>>
    THEN UpdateCommit(prev, FindMaster(evs, savedRecurring, id)[1], updates, id, mode, t)
    ELSE prev

\* lines 173-241: React's state after the call; prev is the state the updater
\* receives, evs the events of the render the call was made in
UpdateStore(prev, evs, savedRecurring, id, updates, mode, t) ==
    IF UpdateOutcome(evs, savedRecurring, id, updates) = "ok"
    THEN UpdateCommit(prev, FindMaster(evs, savedRecurring, id)[1], updates, id, mode, t)
    ELSE prev

\* lines 141-171: how the call ends, and the store after it
AddOutcome(evs, data, t) == IF AddConflicts(evs, data, t) # <<>> THEN "conflict" ELSE "ok"

AddStore(prev, evs, data, t1, t2) ==
    IF AddOutcome(evs, data, t1) = "ok" THEN AddCommit(prev, NewEvent(data, t2)) ELSE prev

\* lines 243-259
DeleteStore(prev, id, mode) ==
    IF IsInstanceId(id) /\ mode = "single" THEN prev
    ELSE LET Keep(e) == e.id # ParentIdOf(id) IN SelectSeq(prev, Keep)

\* lines 261-265
MoveStore(prev, id, newDate) ==
    [i \in 1..Len(prev) |-> IF prev[i].id = id THEN [prev[i] EXCEPT !.date = newDate] ELSE prev[i]]

----------------------------------------------------------------------------
(* Spec: the hook driven by calls of addEvent, updateEvent, deleteEvent and *)
(* moveEvent, one call per render. A call reads the render's events and    *)
(* applies its updater to React's state; Render then ends the handler:     *)
(* the hook runs again on the new state and the save effect runs if        *)
(* setEvents was called.                                                   *)

MainDates == {DateStr(n) : n \in 0..MaxDate}
MainTimes == {<<9, 0>>, <<9, 30>>, <<10, 0>>}
MainEndTimes == {<<>>}
MainRules == {NoRecurrence, Rule("daily", 0, {}, <<>>)}

EventData ==
    {MkEvent(<<>>, "a", d, tm, en, r) :
        d \in MainDates, tm \in MainTimes \cup {<<>>}, en \in MainEndTimes, r \in MainRules}

UpdateData ==
    {[time |-> tm] : tm \in MainTimes}
    \cup {[date |-> d] : d \in MainDates}
    \cup {[title |-> "z"]}

Modes == {"undefined", "single", "all"}

\* ids a caller can pass: the id of a record of the store or of a persisted
\* master, the id of one of its instances, and ids of no record
StoredIds ==
    {events[i].id : i \in 1..Len(events)}
    \cup {lsRecurring[i].id : i \in 1..Len(lsRecurring)}
MissingId == <<MaxNow + 1>>
CallIds ==
    StoredIds \cup {id \o d : id \in StoredIds, d \in MainDates}
    \cup {MissingId, MissingId \o DateStr(0)}

Init ==
    /\ events = <<>>
    /\ state = <<>>
    /\ lsEvents = <<>>
    /\ lsRecurring = <<>>
    /\ now = 1
    /\ last = NoCall
    /\ xin = NoInput
    /\ xout = <<>>

Idle == xin = NoInput /\ last.op = "none"

Called(op, outcome, id, data, mode, set) ==
    last' = [op |-> op, outcome |-> outcome, id |-> id, data |-> data, mode |-> mode,
             set |-> set]

AddEvent ==
    /\ Idle
    /\ \E data \in EventData, t \in now..MaxNow :
        LET outcome == AddOutcome(events, data, now)
        IN /\ outcome = "ok" => Len(state) < MaxEvents
           /\ state' = AddStore(state, events, data, now, t)
           /\ now' = IF outcome = "ok" THEN t ELSE now
           /\ Called("addEvent", outcome, <<>>, data, "undefined", outcome = "ok")
    /\ UNCHANGED <<events, lsEvents, lsRecurring, xin, xout>>

UpdateSingle(id, updates) ==
    \E t \in now..MaxNow :
        /\ Len(state) < MaxEvents
        /\ state' = UpdateStore(state, events, lsRecurring, id, updates, "single", t)
        /\ now' = t
        /\ Called("updateEvent", "ok", id, updates, "single", TRUE)

UpdateOther(id, updates, mode, outcome) ==
    /\ state' = UpdateStore(state, events, lsRecurring, id, updates, mode, now)
    /\ now' = now
    /\ Called("updateEvent", outcome, id, updates, mode, outcome = "ok")

UpdateEvent ==
    /\ Idle
    /\ \E id \in CallIds, updates \in UpdateData, mode \in Modes :
        LET outcome == UpdateOutcome(events, lsRecurring, id, updates)
        IN IF outcome = "ok" /\ IsInstanceId(id) /\ mode = "single"
           THEN UpdateSingle(id, updates)
           ELSE UpdateOther(id, updates, mode, outcome)
    /\ UNCHANGED <<events, lsEvents, lsRecurring, xin, xout>>

DeleteEvent ==
    /\ Idle
    /\ \E id \in CallIds, mode \in Modes :
        /\ state' = DeleteStore(state, id, mode)
        /\ Called("deleteEvent", "ok", id, <<>>, mode, ~(IsInstanceId(id) /\ mode = "single"))
    /\ UNCHANGED <<events, lsEvents, lsRecurring, now, xin, xout>>

MoveEvent ==
    /\ Idle
    /\ \E id \in CallIds, newDate \in MainDates :
        /\ state' = MoveStore(state, id, newDate)
        /\ Called("moveEvent", "ok", id, [date |-> newDate], "undefined", TRUE)
    /\ UNCHANGED <<events, lsEvents, lsRecurring, now, xin, xout>>

\* lines 21-22, 51-59: the handler has ended; the hook runs on React's state,
\* and the save effect runs when its dependency, events, was set
Render ==
    /\ xin = NoInput
    /\ last.op # "none"
    /\ events' = state
    /\ IF last.set
       THEN /\ lsEvents' = RegularEvents(events')
            /\ lsRecurring' = RecurringMasterEvents(events')
       ELSE UNCHANGED <<lsEvents, lsRecurring>>
    /\ last' = NoCall
    /\ UNCHANGED <<state, now, xin, xout>>

Next == AddEvent \/ UpdateEvent \/ DeleteEvent \/ MoveEvent \/ Render

Spec == Init /\ [][Next]_vars

----------------------------------------------------------------------------
(* SpecTabs: the hook in a browser where a second tab of the application,  *)
(* on the same origin and so on the same localStorage, saves its own store *)

\* The stores the other tab holds when its save effect runs
OtherTabStores ==
    {<<NewEvent(MkEvent(<<>>, "b", DateStr(0), <<9, 0>>, <<>>, r), t)>> :
        r \in MainRules \ {NoRecurrence}, t \in 1..MaxNow}

\* lines 52-59 in the other tab: its save effect writes both keys
OtherTabSave ==
    /\ Idle
    /\ \E evs \in OtherTabStores :
          /\ lsEvents' = RegularEvents(evs)
          /\ lsRecurring' = RecurringMasterEvents(evs)
    /\ UNCHANGED <<events, state, now, last, xin, xout>>

NextTabs == Next \/ OtherTabSave

SpecTabs == Init /\ [][NextTabs]_vars

\* C18: updateEvent with an id whose master (the id, or its part before the
\* first '-') is no record of the in-memory store fails with 'not found' in
\* every mode and leaves the store unchanged, whatever is persisted.
C18_UnknownIdNotFound ==
    (last.op = "updateEvent" /\ FindById(events, ParentIdOf(last.id)) = <<>>)
        => (last.outcome = "notfound" /\ state = events)

----------------------------------------------------------------------------
(* Claims on the hook's mutations. In the render where a call was made,    *)
(* events is the store before the call and state the store after it.      *)

\* Some instance materialized on the date of data overlaps data
OverlapsAnInstance(evs, data) ==
    LET same == getEventsForDate(evs, parseISO(data.date))
    IN \E i \in 1..Len(same) : ConflictsWith(same[i], data)

\* C2: addEvent commits exactly when no instance materialized on the
\* candidate's date overlaps it. On a conflict it fails and inserts nothing;
\* otherwise it appends exactly one record, the data under a new id (a master
\* if recurring, standalone otherwise), and leaves every stored record as it was.
C2_AddCommitsIffNoConflict ==
    last.op = "addEvent" =>
        LET conflict == OverlapsAnInstance(events, last.data)
        IN /\ (last.outcome = "ok") <=> ~conflict
           /\ conflict => (last.outcome = "conflict" /\ state = events)
           /\ ~conflict =>
                /\ Len(state) = Len(events) + 1
                /\ SubSeq(state, 1, Len(events)) = events
                /\ LET new == state[Len(state)]
                   IN /\ Len(new.id) = 1
                      /\ new = [last.data EXCEPT !.id = new.id]
                      /\ IsRecurring(new) <=> IsRecurring(last.data)

\* C2 witness: an add rejected because of an occurrence of a stored series on
\* a later date than the series' anchor
C2_Witness ==
    /\ last.op = "addEvent" /\ last.outcome = "conflict"
    /\ Len(events) = 1 /\ IsRecurring(events[1])
    /\ events[1].date # last.data.date
    /\ last.data.time # <<>> /\ events[1].time # <<>>

FailedCall(l) ==
    l.op \in {"addEvent", "updateEvent"} /\ l.outcome \in {"conflict", "notfound"}

\* C3: when addEvent or updateEvent fails, the in-memory store and both
\* persisted collections stay what they were before the call, through the
\* call and through the end of its handler.
C3_FailedCallChangesNothing ==
    [][(FailedCall(last') \/ FailedCall(last)) =>
           UNCHANGED <<events, state, lsEvents, lsRecurring>>]_vars

\* C3 witness: an update rejected for a conflict, in a store of two records
C3_Witness ==
    /\ last.op = "updateEvent" /\ last.outcome = "conflict"
    /\ Len(events) = 2 /\ state = events
    /\ Len(lsEvents) + Len(lsRecurring) = 2

\* The occurrences of a series over the modelled days
Occurrences(master) == generateRecurringEvents(master, Day(0), Day(MaxDay))

\* Some occurrence of series overlaps in time an instance of a stored record
\* other than the series' master
ClashesWithUnrelated(evs, series, masterId) ==
    LET occ == Occurrences(series)
    IN \E i \in 1..Len(occ), k \in 1..Len(evs) :
          /\ evs[k].id # masterId
          /\ LET theirs == EventsOfRecord(evs[k], parseISO(occ[i].date), parseISO(occ[i].date))
             IN \E j \in 1..Len(theirs) :
                   /\ theirs[j].time # <<>> /\ occ[i].time # <<>>
                   /\ ConflictsWith(theirs[j], occ[i])

\* C4: an update of a recurring master, not in 'single' mode, to a new time
\* that overlaps an unrelated stored event on any occurrence date of the
\* series is rejected for a conflict and leaves the store unchanged.
C4_SeriesUpdateRejectedOnAnyDate ==
    (/\ last.op = "updateEvent" /\ last.mode # "single"
     /\ "time" \in DOMAIN last.data
     /\ FindById(events, last.id) # <<>>
     /\ IsRecurring(FindById(events, last.id)[1])
     /\ ClashesWithUnrelated(events, Merge(FindById(events, last.id)[1], last.data), last.id))
    => (last.outcome = "conflict" /\ state = events)

\* C14: for every recurring master of the store and every date d on which it
\* occurs, the instance's id is the master's id, '-', d as yyyy-MM-dd; a one-day
\* query and a range query give the occurrence the same id; and the parsing of
\* updateEvent and deleteEvent recovers the master's id and d from it.
C14_InstanceIdRoundTrip ==
    \A i \in 1..Len(events) : IsRecurring(events[i]) =>
        LET master == events[i]
            range == Occurrences(master)
        IN \A n \in 0..MaxDay :
              LET day == getEventsForDate(<<master>>, Day(n))
              IN /\ Len(day) <= 1
                 /\ \A j \in 1..Len(day) :
                       /\ day[j].id = master.id \o DateStr(n)
                       /\ day[j].date = DateStr(n)
                       /\ IsInstanceId(day[j].id)
                       /\ ParentIdOf(day[j].id) = master.id
                       /\ InstanceDateOf(day[j].id) = DateStr(n)
                       /\ \E k \in 1..Len(range) : range[k] = day[j]
                 /\ \A k \in 1..Len(range) :
                       range[k].date = DateStr(n) => day = <<range[k]>>

\* C14 witness: updateEvent was called with the id of the occurrence of a
\* stored series on the day after its anchor, and found the master
C14_Witness ==
    /\ last.op = "updateEvent" /\ last.outcome = "ok"
    /\ IsInstanceId(last.id)
    /\ \E i \in 1..Len(events) :
          /\ IsRecurring(events[i])
          /\ events[i].date = DateStr(0)
          /\ getEventsForDate(<<events[i]>>, Day(1)) # <<>>
          /\ getEventsForDate(<<events[i]>>, Day(1))[1].id = last.id
          /\ ParentIdOf(last.id) = events[i].id
          /\ InstanceDateOf(last.id) = DateStr(1)

\* A successful updateEvent on an instance id in 'single' mode
SingleUpdateDone ==
    /\ last.op = "updateEvent" /\ last.outcome = "ok"
    /\ IsInstanceId(last.id) /\ last.mode = "single"

RemoveAt(evs, i) == SubSeq(evs, 1, i - 1) \o SubSeq(evs, i + 1, Len(evs))

\* id is the id of the stored record e or of one of its instances
IdOfRecordOrInstance(id, e) ==
    \/ id = e.id
    \/ \E k \in 1..Len(Occurrences(e)) : Occurrences(e)[k].id = id

\* The entries of a query that are the record of id pid or instances of it
EntriesDerivedFrom(entries, pid) ==
    {j \in 1..Len(entries) : entries[j].id = pid \/ entries[j].parentId = pid}

\* C16: after deleteEvent(id) with mode 'all' or no mode, id being the id of a
\* stored record or of one of its instances, the store is the store before the
\* call without that record, no record of that id is left, and getEventsForDate
\* returns nothing derived from it on any date.
C16_DeleteRemovesRecord ==
    \A i \in 1..Len(events) :
        (/\ last.op = "deleteEvent" /\ last.mode # "single"
         /\ IdOfRecordOrInstance(last.id, events[i]))
        => /\ state = RemoveAt(events, i)
           /\ FindById(state, events[i].id) = <<>>
           /\ \A n \in 0..MaxDay :
                 EntriesDerivedFrom(getEventsForDate(state, Day(n)), events[i].id) = {}

\* The ids of the entries getEventsForDate returns for day n
IdsOnDay(evs, n) ==
    {getEventsForDate(evs, Day(n))[j].id : j \in 1..Len(getEventsForDate(evs, Day(n)))}

\* C17: after deleteEvent(instanceId, 'single') on an occurrence of a stored
\* recurring master, getEventsForDate no longer returns that occurrence on its
\* date, and still returns every other occurrence of the series on its date.
C17_SingleDeleteSuppressesOccurrence ==
    (/\ last.op = "deleteEvent" /\ last.mode = "single"
     /\ IsInstanceId(last.id)
     /\ \E n \in 0..MaxDay : last.id \in IdsOnDay(events, n))
    => \A n \in 0..MaxDay :
          /\ last.id \notin IdsOnDay(state, n)
          /\ \A id \in IdsOnDay(events, n) :
                (id # last.id /\ ParentIdOf(id) = ParentIdOf(last.id))
                    => id \in IdsOnDay(state, n)

\* A call of addEvent, updateEvent or deleteEvent that returned without error
SuccessfulMutation(l) ==
    l.op \in {"addEvent", "updateEvent", "deleteEvent"} /\ l.outcome = "ok"

\* Every persisted record is a record of the in-memory store
PersistedWithinStore(persisted, store) ==
    \A i \in 1..Len(persisted) : \E j \in 1..Len(store) : store[j] = persisted[i]

\* C19: the handler of every successful addEvent, updateEvent and deleteEvent
\* ends with a persistence write, and every write stores the in-memory store
\* as the mutation left it, the non-recurring records under one key and the
\* recurring masters under the other, so that what has been written holds no
\* record that the in-memory store does not hold.
C19_SuccessIsPersisted ==
    [][(last.op # "none" /\ last'.op = "none") =>
          /\ SuccessfulMutation(last) => last.set
          /\ last.set =>
                /\ events' = state /\ state' = state
                /\ lsEvents' = RegularEvents(state)
                /\ lsRecurring' = RecurringMasterEvents(state)
                /\ PersistedWithinStore(lsEvents' \o lsRecurring', state')
          /\ ~last.set => UNCHANGED <<lsEvents, lsRecurring>>]_vars

----------------------------------------------------------------------------
(* SpecReload: the hook with page reloads. A record written by             *)
(* JSON.stringify and read by JSON.parse has the same field values: keys   *)
(* holding undefined are dropped and read back as undefined.               *)

\* lines 22-59 on mount: the first render has an empty store; the load effect
\* reads both keys and sets the store to the non-recurring records followed by
\* the recurring masters; the save effect of the first render then writes the
\* empty store under both keys
Reload ==
    /\ Idle
    /\ events' = <<>>
    /\ state' = lsEvents \o lsRecurring
    /\ lsEvents' = RegularEvents(events')
    /\ lsRecurring' = RecurringMasterEvents(events')
    /\ Called("mount", "ok", <<>>, <<>>, "undefined", TRUE)
    /\ UNCHANGED <<now, xin, xout>>

NextReload == Next \/ Reload

SpecReload == Init /\ [][NextReload]_vars

\* a and b hold the same records, each as many times
SameRecords(a, b) ==
    /\ Len(a) = Len(b)
    /\ \A i \in 1..Len(a) :
          Cardinality({j \in 1..Len(a) : a[j] = a[i]})
              = Cardinality({j \in 1..Len(b) : b[j] = a[i]})

\* C20: save followed by load is lossless. When the page is reloaded, each
\* record of the store is persisted in exactly one of the two collections, no
\* instance is persisted, and the store set by the load holds the same records
\* as the store before the reload, none dropped and none duplicated; the
\* render that ends the startup shows that store and persists it again.
C20_SaveLoadLossless ==
    [][/\ last'.op = "mount" =>
              /\ SameRecords(lsEvents \o lsRecurring, events)
              /\ \A i \in 1..Len(lsEvents) : ~IsRecurring(lsEvents[i])
              /\ \A i \in 1..Len(lsRecurring) :
                    /\ IsRecurring(lsRecurring[i])
                    /\ ~lsRecurring[i].isRecurringInstance
                    /\ ~IsInstanceId(lsRecurring[i].id)
              /\ SameRecords(state', events)
       /\ last.op = "mount" =>
              /\ events' = state
              /\ SameRecords(lsEvents' \o lsRecurring', events')]_vars

\* C20 witness: a reload has read a store of a recurring master followed by a
\* non-recurring record; the load returns them in the other order
C20_Witness ==
    /\ last.op = "mount"
    /\ Len(state) = 2
    /\ ~IsRecurring(state[1]) /\ IsRecurring(state[2])
    /\ state[2].id[1] < state[1].id[1]
    /\ events = <<>>

\* C21: moveEvent(id, newDate) ends without error; the store after it is the
\* store before it with only the date of the record whose id is id set to
\* newDate, every other field and every other record as before; and the store
\* is unchanged when no stored record has that id.
C21_MoveChangesOnlyDate ==
    last.op = "moveEvent" =>
        /\ last.outcome = "ok"
        /\ \A i \in 1..Len(events) :
              events[i].id = last.id =>
                  state = [events EXCEPT ![i].date = last.data.date]
        /\ FindById(events, last.id) = <<>> => state = events

----------------------------------------------------------------------------
(* SpecBatch: the hook when a handler calls addEvent twice in one render.  *)
(* Both calls read the events of that render; the updaters are applied to  *)
(* React's state one after the other.                                      *)

\* lines 141-171: a second addEvent before the next render; last.first keeps
\* the first call
AddEventAgain ==
    /\ xin = NoInput
    /\ last.op = "addEvent" /\ "first" \notin DOMAIN last
    /\ \E data \in EventData, t \in now..MaxNow :
        LET outcome == AddOutcome(events, data, now)
        IN /\ outcome = "ok" => Len(state) < MaxEvents
           /\ state' = AddStore(state, events, data, now, t)
           /\ now' = IF outcome = "ok" THEN t ELSE now
           /\ last' = [op |-> "addEvent", outcome |-> outcome, id |-> <<>>,
                       data |-> data, mode |-> "undefined",
                       set |-> (last.set \/ outcome = "ok"), first |-> last]
    /\ UNCHANGED <<events, lsEvents, lsRecurring, xin, xout>>

NextBatch == Next \/ AddEventAgain

SpecBatch == Init /\ [][NextBatch]_vars

\* Two candidates on the same date, both timed, whose time ranges overlap
OverlappingData(d1, d2) ==
    /\ d1.date = d2.date
    /\ d1.time # <<>> /\ d2.time # <<>>
    /\ hasOverlap(parseISODateTime(d1.date, d1.time), EndOf(d1),
                  parseISODateTime(d2.date, d2.time), EndOf(d2))

\* C22: when addEvent is called twice in one render with time ranges that
\* overlap on the same date, at most one of the two calls commits.
C22_AtMostOneCommits ==
    (/\ last.op = "addEvent" /\ "first" \in DOMAIN last
     /\ OverlappingData(last.first.data, last.data))
    => ~(last.first.outcome = "ok" /\ last.outcome = "ok")

----------------------------------------------------------------------------
(* SpecDrop: the hook driven also by the calendar's drag-and-drop handler  *)
(* (src/src/components/Calendar.tsx, handleDrop)                           *)

\* The entries shown on the days of the grid, which the user can drag
DisplayedEntries ==
    UNION {{getEventsForDate(events, Day(n))[j] :
                j \in 1..Len(getEventsForDate(events, Day(n)))} : n \in 0..MaxDate}

\* Calendar.tsx lines 92-110: the dragged entry is checked on the target date;
\* on a conflict the handler alerts and returns, otherwise it calls
\* moveEvent(draggedEvent.id, newDate)
HandleDrop ==
    /\ Idle
    /\ \E draggedEvent \in DisplayedEntries, newDate \in MainDates :
        LET updatedEvent == [draggedEvent EXCEPT !.date = newDate]
            conflicts == checkConflicts(events, updatedEvent)
        IN IF conflicts # <<>>
           THEN /\ state' = state
                /\ Called("handleDrop", "conflict", draggedEvent.id,
                          [date |-> newDate], "undefined", FALSE)
           ELSE /\ state' = MoveStore(state, draggedEvent.id, newDate)
                /\ Called("handleDrop", "ok", draggedEvent.id,
                          [date |-> newDate], "undefined", TRUE)
    /\ UNCHANGED <<events, lsEvents, lsRecurring, now, xin, xout>>

NextDrop == Next \/ HandleDrop

SpecDrop == Init /\ [][NextDrop]_vars

\* C23: when a displayed entry, a standalone event or an instance of a series,
\* is dropped on a date where checkConflicts finds no conflict, getEventsForDate
\* of that date afterwards returns an entry derived from the same stored record.
C23_DropReschedules ==
    (last.op = "handleDrop" /\ last.outcome = "ok") =>
        EntriesDerivedFrom(getEventsForDate(state, parseISO(last.data.date)),
                           ParentIdOf(last.id)) # {}

\* The conflicts updateEvent found for the call in last, master being the
\* stored record it updates
FoundConflicts(master) == UpdateConflicts(events, master, last.data, last.id)

\* C24: an update by master id or by instance id, not in 'single' mode, whose
\* new date and time overlap no instance of any other stored record is not
\* rejected for a conflict: the occurrences of the updated record itself are
\* left out of the conflict check.
C24_OwnInstancesExcluded ==
    (/\ last.op = "updateEvent" /\ last.mode # "single"
     /\ FindById(events, ParentIdOf(last.id)) # <<>>
     /\ LET master == FindById(events, ParentIdOf(last.id))[1]
        IN /\ IdOfRecordOrInstance(last.id, master)
           /\ \A k \in 1..Len(FoundConflicts(master)) :
                 \/ FoundConflicts(master)[k].id = master.id
                 \/ FoundConflicts(master)[k].parentId = master.id)
    => last.outcome # "conflict"

----------------------------------------------------------------------------
(* SpecPlain: the hook driven by addEvent, updateEvent and deleteEvent on  *)
(* non-recurring events whose endTime, when present, is later than time    *)

PlainEndTimes == {<<>>, <<9, 30>>, <<10, 0>>, <<10, 30>>}

PlainData ==
    {e \in {MkEvent(<<>>, "a", d, tm, en, NoRecurrence) :
                d \in MainDates, tm \in MainTimes \cup {<<>>}, en \in PlainEndTimes} :
        IF e.time = <<>> THEN e.endTime = <<>> ELSE ProperRange(e)}

PlainUpdates ==
    {[time |-> tm, endTime |-> en] : tm \in MainTimes, en \in PlainEndTimes}
    \cup {[date |-> d] : d \in MainDates}
    \cup {[title |-> "z"]}

\* ids of non-recurring events: the id of a record, or an id no record has
PlainIds == {id \in CallIds : ~IsInstanceId(id)}

\* The record an update would store keeps endTime, when present, later than time
ProperUpdate(id, updates) ==
    LET m == FindMaster(events, lsRecurring, id)
    IN ("time" \in DOMAIN updates /\ m # <<>>) =>
          LET merged == Merge(m[1], updates)
          IN IF merged.endTime = <<>> THEN TRUE ELSE ProperRange(merged)

\* lines 141-171
AddPlain ==
    /\ Idle
    /\ \E data \in PlainData, t \in now..MaxNow :
        LET outcome == AddOutcome(events, data, now)
        IN /\ outcome = "ok" => Len(state) < MaxEvents
           /\ state' = AddStore(state, events, data, now, t)
           /\ now' = IF outcome = "ok" THEN t ELSE now
           /\ Called("addEvent", outcome, <<>>, data, "undefined", outcome = "ok")
    /\ UNCHANGED <<events, lsEvents, lsRecurring, xin, xout>>

\* lines 173-241
UpdatePlain ==
    /\ Idle
    /\ \E id \in PlainIds, mode \in Modes :
        \E updates \in {u \in PlainUpdates : ProperUpdate(id, u)} :
            LET outcome == UpdateOutcome(events, lsRecurring, id, updates)
            IN IF outcome = "ok" /\ IsInstanceId(id) /\ mode = "single"
               THEN UpdateSingle(id, updates)
               ELSE UpdateOther(id, updates, mode, outcome)
    /\ UNCHANGED <<events, lsEvents, lsRecurring, xin, xout>>

NextPlain == AddPlain \/ UpdatePlain \/ DeleteEvent \/ Render

SpecPlain == Init /\ [][NextPlain]_vars

\* C25: in a store built from the empty store by addEvent, updateEvent and
\* deleteEvent calls on non-recurring events with endTime, when present, later
\* than time, no two stored events with a time on the same date have
\* overlapping ranges [time, endTime or time + 1 hour).
C25_NoOverlapPlain ==
    \A i, j \in 1..Len(state) :
        (/\ i # j
         /\ state[i].date = state[j].date
         /\ state[i].time # <<>> /\ state[j].time # <<>>)
        => ~HalfOpenOverlap(state[i], state[j])

\* Two entries of one day that both have a time and whose ranges overlap
OverlappingEntries(entries) ==
    \E i, j \in 1..Len(entries) :
        /\ i # j
        /\ entries[i].time # <<>> /\ entries[j].time # <<>>
        /\ HalfOpenOverlap(entries[i], entries[j])

\* C26: in a store built from the empty store by successful addEvent,
\* updateEvent and deleteEvent calls, recurring masters included, no two
\* distinct entries of getEventsForDate(date) have overlapping time ranges,
\* for every date.
C26_NoOverlapMaterialized ==
    \A n \in 0..MaxDate : ~OverlappingEntries(getEventsForDate(state, Day(n)))

PairwiseDistinctIds(entries) ==
    \A i, j \in 1..Len(entries) : i # j => entries[i].id # entries[j].id

\* C27: after any sequence of addEvent calls and 'single'-mode updateEvent
\* calls, two of them made at the same clock reading included, the records of
\* the store have pairwise distinct ids, and so have the entries that
\* getEventsForDateRange returns.
C27_IdsUnique ==
    /\ PairwiseDistinctIds(state)
    /\ PairwiseDistinctIds(getEventsForDateRange(state, Day(0), Day(MaxDate)))

-----------------------------------------------------------------------------
(* SpecModal: Spec plus saves of the edit modal opened on a displayed entry *)

\* EventModal.tsx lines 94-104, 163: the recurrence the form is filled with,
\* as handleSubmit sends it (a form of type 'none' sends undefined)
FormRecurrence(event) ==
    IF ~IsRecurring(event) THEN NoRecurrence
    ELSE Rule(event.recurrence.type, IntervalOr1(event.recurrence),
              event.recurrence.daysOfWeek, event.recurrence.endDate)

\* EventModal.tsx lines 85-93, 155-165: the data handleSubmit builds from a
\* form filled with the entry's fields, the title and the update mode being
\* what the user left or chose
FormData(event, title, updateMode) ==
    [title |-> title, date |-> event.date, time |-> event.time,
     endTime |-> event.endTime, recurrence |-> FormRecurrence(event),
     updateMode |-> IF event.recurrence.type # "none" THEN updateMode ELSE "undefined"]

\* EventModal.tsx lines 167-172: the final check before saving
FinalCheck(event, eventData) ==
    checkConflicts(events, [Merge(event, eventData) EXCEPT !.id = event.id])

\* EventModal.tsx lines 152-175 and Calendar.tsx lines 112-121: the modal,
\* opened on a displayed entry with a time, is submitted with the date field
\* untouched; on a conflict nothing is saved, otherwise handleEventSave calls
\* updateEvent(selectedEvent.id, eventData) without a mode
HandleSubmit ==
    /\ Idle
    /\ \E event \in {e \in DisplayedEntries : e.time # <<>>},
          title \in {"a", "z"}, updateMode \in {"single", "all"} :
        LET eventData == FormData(event, title, updateMode)
        IN IF FinalCheck(event, eventData) # <<>>
           THEN /\ state' = state
                /\ now' = now
                /\ Called("handleSubmit", "conflict", event.id, eventData, "undefined",
                          FALSE)
           ELSE UpdateOther(event.id, eventData, "undefined",
                            UpdateOutcome(events, lsRecurring, event.id, eventData))
    /\ UNCHANGED <<events, lsEvents, lsRecurring, xin, xout>>

NextModal == Next \/ HandleSubmit

SpecModal == Init /\ [][NextModal]_vars

\* The dates of the entries of days 0..MaxDate derived from the record pid
SeriesDates(evs, pid) ==
    LET entries == getEventsForDateRange(evs, Day(0), Day(MaxDate))
    IN {entries[j].date : j \in EntriesDerivedFrom(entries, pid)}

\* The call in last is a save of the modal in 'all occurrences' mode
ModalSavedAll ==
    /\ last.op = "updateEvent" /\ last.outcome = "ok"
    /\ "updateMode" \in DOMAIN last.data
    /\ last.data.updateMode = "all"

\* C28: after the modal, opened on a later occurrence of a recurring series,
\* is saved in 'all occurrences' mode with the date field untouched, the
\* occurrence dates of the series are the same as before the save.
C28_AllModeKeepsAnchor ==
    (/\ ModalSavedAll
     /\ IsInstanceId(last.id)
     /\ last.data.date = InstanceDateOf(last.id))
    => SeriesDates(state, ParentIdOf(last.id)) = SeriesDates(events, ParentIdOf(last.id))

-----------------------------------------------------------------------------
(* SpecSingle: 'single'-mode updates on a store that two successful         *)
(* addEvent calls have filled                                                *)

MaxSingle == 1      \* single-occurrence updates that commit in a run

\* The stores after addEvent(d1) at clock reading 1 and addEvent(d2) at 2,
\* both successful (lines 141-171)
TwoAddStores ==
    {<<NewEvent(p[1], 1), NewEvent(p[2], 2)>> :
        p \in {q \in EventData \X EventData :
                  AddOutcome(<<NewEvent(q[1], 1)>>, q[2], 2) = "ok"}}

InitSingle ==
    /\ events \in TwoAddStores
    /\ state = events
    /\ lsEvents = RegularEvents(events)
    /\ lsRecurring = RecurringMasterEvents(events)
    /\ now = 2
    /\ last = NoCall
    /\ xin = NoInput
    /\ xout = <<>>

\* lines 173-241 with mode 'single' on an instance id
UpdateSingleMode ==
    /\ Idle
    /\ \E id \in {i \in CallIds : IsInstanceId(i)}, updates \in UpdateData,
          t \in now..(MaxNow + MaxSingle) :
        LET outcome == UpdateOutcome(events, lsRecurring, id, updates)
        IN IF outcome = "ok"
           THEN /\ Len(state) < MaxEvents + MaxSingle
                /\ state' = UpdateStore(state, events, lsRecurring, id, updates,
                                        "single", t)
                /\ now' = t
                /\ Called("updateEvent", "ok", id, updates, "single", TRUE)
           ELSE /\ t = now
                /\ UpdateOther(id, updates, "single", outcome)
    /\ UNCHANGED <<events, lsEvents, lsRecurring, xin, xout>>

NextSingle == UpdateSingleMode \/ Render

SpecSingle == InitSingle /\ [][NextSingle]_vars

\* C29: whenever a 'single'-mode update of a displayed occurrence commits, the
\* new standalone event
\* overlaps no entry of getEventsForDate(its date) other than the occurrence
\* it was detached from, whether the changes carry no date, the occurrence's
\* date or another date.
C29_SingleCheckedOnStoredDate ==
    (SingleUpdateDone /\ \E n \in 0..MaxDate : last.id \in IdsOnDay(events, n)) =>
        LET new == state[Len(state)]
            entries == getEventsForDate(state, parseISO(new.date))
        IN \A j \in 1..Len(entries) :
              (/\ entries[j].id \notin {new.id, last.id}
               /\ entries[j].time # <<>> /\ new.time # <<>>)
              => ~HalfOpenOverlap(new, entries[j])

-----------------------------------------------------------------------------
(* SpecStartup: Spec plus page loads whose effects run one at a time. The   *)
(* application's entry point is not part of the sources read here, so       *)
(* whether React runs the mount effects once or twice (as its StrictMode    *)
(* does in development) is a choice made at each page load.                 *)

EffectRuns == {1, 2}

\* line 22 on a page load: the first render has an empty store; xin holds the
\* position in the mount effects and what was persisted before
Mount ==
    /\ Idle
    /\ events' = <<>>
    /\ state' = <<>>
    /\ \E runs \in EffectRuns :
          xin' = [fn |-> "startup", pc |-> "load", runs |-> runs,
                  before |-> lsEvents \o lsRecurring]
    /\ UNCHANGED <<lsEvents, lsRecurring, now, last, xout>>

\* lines 26-49: the load effect sets the store to what the two keys hold
LoadEffect ==
    /\ xin.fn = "startup" /\ xin.pc = "load"
    /\ state' = lsEvents \o lsRecurring
    /\ xin' = [xin EXCEPT !.pc = "save"]
    /\ UNCHANGED <<events, lsEvents, lsRecurring, now, last, xout>>

\* lines 52-59: the save effect of the first render writes the store of that
\* render, which is empty; after the last run of the effects React re-renders
\* with the store the load effects have set
SaveEffect ==
    /\ xin.fn = "startup" /\ xin.pc = "save"
    /\ lsEvents' = RegularEvents(events)
    /\ lsRecurring' = RecurringMasterEvents(events)
    /\ IF xin.runs > 1
       THEN /\ xin' = [xin EXCEPT !.pc = "load", !.runs = xin.runs - 1]
            /\ last' = last
       ELSE /\ xin' = NoInput
            /\ Called("startup", "ok", <<>>, xin.before, "undefined", TRUE)
    /\ UNCHANGED <<events, state, now, xout>>

NextStartup == Next \/ Mount \/ LoadEffect \/ SaveEffect

SpecStartup == Init /\ [][NextStartup]_vars

\* Every record of before is in evs
HoldsAll(evs, before) ==
    \A i \in 1..Len(before) : \E j \in 1..Len(evs) : evs[j] = before[i]

\* C30: at every step of the startup (load effect, save effect of the empty
\* first render, re-render and its save effect), also when the mount effects
\* run twice, the persisted collections hold every record persisted before the
\* startup, and the store set by the startup holds those records.
C30_StartupKeepsData ==
    /\ xin.fn = "startup" => HoldsAll(lsEvents \o lsRecurring, xin.before)
    /\ last.op = "startup" =>
          /\ HoldsAll(lsEvents \o lsRecurring, last.data)
          /\ HoldsAll(state, last.data)

====
